---- MODULE Spec2Model ----
(***************************************************************************)
(* N-Body-Simulator: the PhysicsVector<dim> value type, the Planet update  *)
(* functions and the driving loop of main().                               *)
(*                                                                         *)
(* Numbers.  The program computes in IEEE-754 double.  The model computes  *)
(* in a binary floating-point format of the same shape with a shorter      *)
(* significand: Prec significant bits, round-to-nearest-even, gradual      *)
(* underflow onto a grid of 2^-FracBits, overflow to infinity above        *)
(* 2^IntBits, and a NaN.  A finite number is held as an integer count of   *)
(* grid units, so 1.0 is Scale.  The sign of zero is not modelled.         *)
(***************************************************************************)
EXTENDS Integers, Sequences, FiniteSets, TLC

VARIABLES
    \* ---- main() of SolarSystem.cpp
    Planets,        \* planetArray_t Planets
    timeStep,       \* double timeStep
    totalLength,    \* double totalLength
    currentLength,  \* double currentLength
    pc,             \* position of main() in its loop
    outputFile,     \* the records handed to outputFile so far
    hist,           \* history of the current step (not program state)
    \* ---- a harness calling Planet::updateEuler / updateEulerCromer
    sch,
    \* ---- a harness holding PhysicsVector<dim> objects
    vec,
    \* ---- a harness calling the vector calculus functions of PhysicsVector
    calc,
    \* ---- main() reading config.txt: its local variables, and the lines read
    reader

vars == <<Planets, timeStep, totalLength, currentLength, pc, outputFile, hist, sch, vec, calc, reader>>

-----------------------------------------------------------------------------
(* double *)

Prec == 7
FracBits == 9
IntBits == 8

Scale == 2^FracBits
MaxFinite == 2^(FracBits + IntBits) - 2^(FracBits + IntBits - Prec)
Inf == MaxFinite + 1
NegInf == -(MaxFinite + 1)
NaN == MaxFinite + 2

\* The double nearest to the integer n, and to the fraction n/d.
F(n) == n * Scale

Abs(x) == IF x < 0 THEN -x ELSE x
Max(a, b) == IF a < b THEN b ELSE a

IsNaN(x) == x = NaN
IsInf(x) == x = Inf \/ x = NegInf
IsFinite(x) == ~IsNaN(x) /\ ~IsInf(x)

\* The spacing of the doubles around q >= 0: 1 on the grid, and otherwise
\* the power of two that leaves q with Prec significant bits.
ulpOf(q) ==
    IF q < 2^Prec THEN 1
    ELSE 2^(CHOOSE e \in 1..(31 - Prec) : 2^(Prec + e - 1) <= q /\ q < 2^(Prec + e))

\* n/d (d > 0) rounded to Prec significant bits, ties to even; the result
\* of every arithmetic operation on finite doubles.
RoundQ(n, d) ==
    LET an   == Abs(n)
        q    == an \div d
        u    == ulpOf(q)
        k    == q \div u
        base == k * u
        rem  == an - base * d
        up   == rem > u * d - rem \/ (rem = u * d - rem /\ k % 2 = 1)
        r    == IF up THEN base + u ELSE base
    IN  IF r > MaxFinite THEN (IF n < 0 THEN NegInf ELSE Inf)
        ELSE IF n < 0 THEN -r ELSE r

fNeg(a) == IF IsNaN(a) THEN NaN ELSE -a

fAdd(a, b) ==
    IF IsNaN(a) \/ IsNaN(b) THEN NaN
    ELSE IF IsInf(a) THEN (IF IsInf(b) /\ a # b THEN NaN ELSE a)
    ELSE IF IsInf(b) THEN b
    ELSE RoundQ(a + b, 1)

fSub(a, b) == fAdd(a, fNeg(b))

fMul(a, b) ==
    IF IsNaN(a) \/ IsNaN(b) THEN NaN
    ELSE IF IsInf(a) \/ IsInf(b)
         THEN (IF a = 0 \/ b = 0 THEN NaN
               ELSE IF (a < 0) = (b < 0) THEN Inf ELSE NegInf)
    ELSE IF b # 0 /\ Abs(a) > 2^30 \div Abs(b)            \* far above MaxFinite
         THEN (IF (a < 0) = (b < 0) THEN Inf ELSE NegInf)
    ELSE RoundQ(a * b, Scale)

fDiv(a, b) ==
    IF IsNaN(a) \/ IsNaN(b) THEN NaN
    ELSE IF IsInf(a) THEN (IF IsInf(b) THEN NaN
                           ELSE IF (a < 0) = (b < 0) THEN Inf ELSE NegInf)
    ELSE IF IsInf(b) THEN 0
    ELSE IF b = 0 THEN (IF a = 0 THEN NaN ELSE IF a < 0 THEN NegInf ELSE Inf)
    ELSE RoundQ((IF b < 0 THEN -a ELSE a) * Scale, Abs(b))

fLess(a, b) == ~IsNaN(a) /\ ~IsNaN(b) /\ a < b
fLeq(a, b) == ~IsNaN(a) /\ ~IsNaN(b) /\ a <= b

RECURSIVE SqrtIter(_, _, _)
SqrtIter(m, r, bit) ==
    IF bit = 0 THEN r
    ELSE IF (r + bit) * (r + bit) <= m THEN SqrtIter(m, r + bit, bit \div 2)
    ELSE SqrtIter(m, r, bit \div 2)

\* sqrt, correctly rounded.
fSqrt(a) ==
    IF IsNaN(a) \/ a < 0 THEN NaN
    ELSE IF a = Inf THEN Inf
    ELSE LET m    == a * Scale
             s    == SqrtIter(m, 0, 2^14)
             u    == ulpOf(s)
             k    == s \div u
             base == k * u
             mid  == base * base + base * u + (u * u) \div 4
             up   == IF u = 1 THEN m > base * base + base
                     ELSE m > mid \/ (m = mid /\ k % 2 = 1)
         IN  IF up THEN base + u ELSE base

\* pow(d, 2)
pow2(d) == fMul(d, d)

\* x <= std::numeric_limits<double>::epsilon(), epsilon being 2^-(Prec-1)
leqEpsilon(x) == ~IsNaN(x) /\ x * 2^(Prec - 1) <= Scale

\* x * y and x + y, computed without rounding or overflow
mulExact(x, y) ==
    /\ IsFinite(x) /\ IsFinite(y)
    /\ y = 0 \/ Abs(x) <= 2^30 \div Abs(y)
    /\ IsFinite(fMul(x, y)) /\ fMul(x, y) * Scale = x * y

addExact(x, y) ==
    IsFinite(x) /\ IsFinite(y) /\ IsFinite(fAdd(x, y)) /\ fAdd(x, y) = x + y

-----------------------------------------------------------------------------
(* PhysicsVector<dim>: m_components is a sequence of doubles.  The code    *)
(* counts components from 0, a sequence from 1.                            *)

RECURSIVE popBack(_, _, _)
popBack(c, i, dim) ==
    IF i > dim THEN popBack(SubSeq(c, 1, Len(c) - 1), i - 1, dim) ELSE c

RECURSIVE pushZeros(_, _, _)
pushZeros(c, i, dim) ==
    IF i < dim THEN pushZeros(Append(c, 0), i + 1, dim) ELSE c

\* (mutant) too long a vector loses its first components, too short a one
\* is padded in front
matchVectorSize_front(c, dim) ==
    IF Len(c) > dim THEN SubSeq(c, Len(c) - dim + 1, Len(c))
    ELSE IF Len(c) < dim THEN pushZeros(<<>>, Len(c), dim) \o c
    ELSE c

matchVectorSize(c, dim) ==
    IF Len(c) > dim THEN popBack(c, Len(c), dim)
    ELSE IF Len(c) < dim THEN pushZeros(c, Len(c), dim)
    ELSE c

\* PhysicsVector()
defaultCtor(dim) == pushZeros(<<>>, 0, dim)

\* PhysicsVector(const std::initializer_list<double>&)
initListCtor(inList, dim) ==
    IF Len(inList) # dim THEN matchVectorSize(inList, dim) ELSE inList

\* PhysicsVector(const PhysicsVector<dim>&): every component of the source
copyCtor(inVector) == inVector

\* operator=(const PhysicsVector<dim>&) from another object holding at
\* least dim components: the first dim of them.
RECURSIVE pushFirst(_, _, _)
pushFirst(inVector, i, dim) ==
    IF i = 0 THEN <<>> ELSE Append(pushFirst(inVector, i - 1, dim), inVector[i])

copyAssign(inVector, dim) ==
    LET c == pushFirst(inVector, dim, dim)
    IN  IF Len(c) # dim THEN matchVectorSize(c, dim) ELSE c

\* operator=(PhysicsVector<dim>&&), the value this vector gets
moveAssign(inVector, dim) ==
    IF Len(inVector) # dim THEN matchVectorSize(inVector, dim) ELSE inVector

\* operator-(const PhysicsVector<dim>&), binary
vecSub(a, b) == [i \in 1..Len(a) |-> fSub(a[i], b[i])]

\* operator+=
vecAddAssign(a, b) == [i \in 1..Len(a) |-> fAdd(a[i], b[i])]

scaleVector(c, inValue) == [i \in 1..Len(c) |-> fMul(c[i], inValue)]

RECURSIVE sumSquares(_, _)
sumSquares(c, n) ==
    IF n = 0 THEN 0 ELSE fAdd(sumSquares(c, n - 1), pow2(c[n]))

lengthSquared(c) == sumSquares(c, Len(c))

magnitude(c) == fSqrt(lengthSquared(c))

\* (mutant) the vector is scaled whatever its magnitude
getUnitVector_unguarded(c, dim) == scaleVector(copyCtor(c), fDiv(F(1), magnitude(c)))

getUnitVector(c, dim) ==
    IF leqEpsilon(magnitude(c)) THEN defaultCtor(dim)
    ELSE scaleVector(copyCtor(c), fDiv(F(1), magnitude(c)))

\* double == double
fEq(a, b) == ~IsNaN(a) /\ ~IsNaN(b) /\ a = b

\* operator==, of two vectors holding dim components each
vecEq(a, b, dim) == \A i \in 1..dim : fEq(a[i], b[i])

\* operator-(), unary: every component that is not 0 is multiplied by -1
unaryMinus(c) == [i \in 1..Len(c) |-> IF c[i] # 0 THEN fMul(c[i], F(-1)) ELSE c[i]]

\* std::inner_product(begin, end, inVector.begin, 0.0)
RECURSIVE innerSum(_, _, _)
innerSum(a, b, n) ==
    IF n = 0 THEN 0 ELSE fAdd(innerSum(a, b, n - 1), fMul(a[n], b[n]))

innerProduct(a, b) == innerSum(a, b, Len(a))

\* (mutant) the two products are added
crossTerm_added(a, b, i, j) == fAdd(fMul(a[i + 1], b[j + 1]), fMul(a[j + 1], b[i + 1]))

\* (a[i] * b[j]) - (a[j] * b[i]), i and j counted from 0 as in the source
crossTerm(a, b, i, j) == fSub(fMul(a[i + 1], b[j + 1]), fMul(a[j + 1], b[i + 1]))

\* The index pairs of the three terms of e1 .. e7.
SevenTerms ==
    << <<<<1, 3>>, <<2, 6>>, <<4, 5>>>>,
       <<<<2, 4>>, <<3, 0>>, <<5, 6>>>>,
       <<<<3, 5>>, <<4, 1>>, <<6, 0>>>>,
       <<<<4, 6>>, <<5, 2>>, <<0, 1>>>>,
       <<<<5, 0>>, <<6, 3>>, <<1, 2>>>>,
       <<<<6, 1>>, <<0, 4>>, <<2, 3>>>>,
       <<<<0, 2>>, <<1, 5>>, <<3, 4>>>> >>

\* double e{ 0.0 }; e += term 1; e += term 2; e += term 3;
sevenComponent(a, b, t) ==
    fAdd(fAdd(fAdd(0, crossTerm(a, b, t[1][1], t[1][2])),
              crossTerm(a, b, t[2][1], t[2][2])),
         crossTerm(a, b, t[3][1], t[3][2]))

\* (mutant) no dimension is refused
vectorProductThrows_never(dim) == FALSE

\* if (dim != 3 && dim != 7) throw std::logic_error
vectorProductThrows(dim) == dim # 3 /\ dim # 7

\* (mutant) the third term of e1 has its indices exchanged
vectorProduct_e1(a, b, dim) ==
    IF dim = 3
    THEN initListCtor(<<crossTerm(a, b, 1, 2), crossTerm(a, b, 2, 0), crossTerm(a, b, 0, 1)>>, dim)
    ELSE initListCtor([k \in 1..7 |->
                          IF k = 1
                          THEN sevenComponent(a, b, <<<<1, 3>>, <<2, 6>>, <<5, 4>>>>)
                          ELSE sevenComponent(a, b, SevenTerms[k])], dim)

\* vectorProduct, where it does not throw: the value returned
vectorProduct(a, b, dim) ==
    IF dim = 3
    THEN initListCtor(<<crossTerm(a, b, 1, 2), crossTerm(a, b, 2, 0), crossTerm(a, b, 0, 1)>>, dim)
    ELSE initListCtor([k \in 1..7 |-> sevenComponent(a, b, SevenTerms[k])], dim)

\* int converted to std::size_t: an unsigned type, wider than int. It has
\* 30 bits here, where an integer of TLC has 32.
SizeMod == 2^30
toSizeT(i) == i % SizeMod

\* m_components.at(inEntry) throws std::out_of_range
getAtThrows(c, inEntry) == toSizeT(inEntry) >= Len(c)

\* (mutant) the index is compared as a signed int
setAtThrows_signed(indexIn, dim) == indexIn > dim - 1

\* if (indexIn > dim - 1) throw std::out_of_range, compared in std::size_t
setAtThrows(indexIn, dim) == toSizeT(indexIn) > toSizeT(dim - 1)

\* m_components[indexIn] names no element: undefined behaviour
subscriptUndefined(c, index) == toSizeT(index) >= Len(c)

\* What std::vector's move assignment can leave in its source: valid but
\* unspecified by the standard; with std::allocator the buffer is handed
\* over and the source is left empty.
movedFrom(c) == {<<>>}

-----------------------------------------------------------------------------
(* Planet *)

\* static constexpr double G: the unit of mass is chosen so that G is 1.0
\* (6.67408e-11 is below the grid of the number format).
G == F(1)

Planet(inName, inMass, inPos, inVel) ==
    [m_name |-> inName, m_mass |-> inMass, m_position |-> inPos,
     m_velocity |-> inVel, m_acceleration |-> defaultCtor(3)]

\* (mutant) a planet at no distance is given no acceleration
calcAcceleration_guarded(self, inPlanet) ==
    LET r == magnitude(vecSub(self.m_position, inPlanet.m_position))
        outVector == getUnitVector(vecSub(self.m_position, inPlanet.m_position), 3)
    IN  IF leqEpsilon(r) THEN defaultCtor(3)
        ELSE scaleVector(outVector, fDiv(fNeg(fMul(G, inPlanet.m_mass)), pow2(r)))

calcAcceleration(self, inPlanet) ==
    LET r == magnitude(vecSub(self.m_position, inPlanet.m_position))
        outVector == getUnitVector(vecSub(self.m_position, inPlanet.m_position), 3)
    IN  scaleVector(outVector, fDiv(fNeg(fMul(G, inPlanet.m_mass)), pow2(r)))

\* The loop of updateAccelerationEuler over the first n elements; `this`
\* is element number me of inPlanets (0 when it is no element of it).
RECURSIVE sumAcceleration(_, _, _, _)
sumAcceleration(self, me, inPlanets, n) ==
    IF n = 0 THEN initListCtor(<<0, 0, 0>>, 3)
    ELSE IF n = me THEN sumAcceleration(self, me, inPlanets, n - 1)
    ELSE vecAddAssign(sumAcceleration(self, me, inPlanets, n - 1),
                      calcAcceleration(self, inPlanets[n]))

\* (mutant) an element is skipped when its name, mass, position and
\* velocity are those of this planet
RECURSIVE sumAcceleration_byValue(_, _, _)
sumAcceleration_byValue(self, inPlanets, n) ==
    IF n = 0 THEN initListCtor(<<0, 0, 0>>, 3)
    ELSE IF /\ inPlanets[n].m_name = self.m_name /\ inPlanets[n].m_mass = self.m_mass
            /\ inPlanets[n].m_position = self.m_position
            /\ inPlanets[n].m_velocity = self.m_velocity
         THEN sumAcceleration_byValue(self, inPlanets, n - 1)
    ELSE vecAddAssign(sumAcceleration_byValue(self, inPlanets, n - 1),
                      calcAcceleration(self, inPlanets[n]))

updateAccelerationEuler_byValue(self, me, inPlanets) ==
    [self EXCEPT !.m_acceleration = sumAcceleration_byValue(self, inPlanets, Len(inPlanets))]

\* (mutant) the planet's mass is set to that of the last planet it summed over
updateAccelerationEuler_takesMass(self, me, inPlanets) ==
    [self EXCEPT !.m_acceleration = sumAcceleration(self, me, inPlanets, Len(inPlanets)),
                 !.m_mass = inPlanets[Len(inPlanets)].m_mass]

updateAccelerationEuler(self, me, inPlanets) ==
    [self EXCEPT !.m_acceleration =
        sumAcceleration(self, me, inPlanets, Len(inPlanets))]

updatePositionEuler(self, dt) ==
    LET newX == fAdd(self.m_position[1], fMul(self.m_velocity[1], dt))
        newY == fAdd(self.m_position[2], fMul(self.m_velocity[2], dt))
        newZ == fAdd(self.m_position[3], fMul(self.m_velocity[3], dt))
    IN  [self EXCEPT !.m_position = moveAssign(initListCtor(<<newX, newY, newZ>>, 3), 3)]

\* (mutant) the velocity is left as it was
updateVelocityEuler_frozen(self, dt) == self

updateVelocityEuler(self, dt) ==
    LET newX == fAdd(self.m_velocity[1], fMul(self.m_acceleration[1], dt))
        newY == fAdd(self.m_velocity[2], fMul(self.m_acceleration[2], dt))
        newZ == fAdd(self.m_velocity[3], fMul(self.m_acceleration[3], dt))
    IN  [self EXCEPT !.m_velocity = moveAssign(initListCtor(<<newX, newY, newZ>>, 3), 3)]

\* (mutant) the velocity is advanced before the position
updateEuler_velocityFirst(self, me, inPlanets, dt) ==
    updatePositionEuler(
        updateVelocityEuler(updateAccelerationEuler(self, me, inPlanets), dt), dt)

\* (mutant) the position is advanced before the velocity
updateEulerCromer_positionFirst(self, me, inPlanets, dt) ==
    updateVelocityEuler(
        updatePositionEuler(updateAccelerationEuler(self, me, inPlanets), dt), dt)

updateEuler(self, me, inPlanets, dt) ==
    updateVelocityEuler(
        updatePositionEuler(updateAccelerationEuler(self, me, inPlanets), dt), dt)

updateEulerCromer(self, me, inPlanets, dt) ==
    updatePositionEuler(
        updateVelocityEuler(updateAccelerationEuler(self, me, inPlanets), dt), dt)

-----------------------------------------------------------------------------
(* SolarSystem.cpp *)

RECURSIVE comSum(_, _, _)
comSum(P, n, k) ==
    IF n = 0 THEN 0
    ELSE fAdd(comSum(P, n - 1, k), fMul(P[n].m_position[k], P[n].m_mass))

RECURSIVE massSum(_, _)
massSum(P, n) == IF n = 0 THEN 0 ELSE fAdd(massSum(P, n - 1), P[n].m_mass)

centreOfMass(P) ==
    LET totalMass == massSum(P, Len(P))
    IN  initListCtor(<<fDiv(comSum(P, Len(P), 1), totalMass),
                       fDiv(comSum(P, Len(P), 2), totalMass),
                       fDiv(comSum(P, Len(P), 3), totalMass)>>, 3)

\* (mutant) the centre of mass is computed again for every planet, from the
\* planets already moved
RECURSIVE recentreEach(_, _)
recentreEach(P, n) ==
    IF n = 0 THEN P
    ELSE LET Q == recentreEach(P, n - 1)
         IN  [Q EXCEPT ![n].m_position = copyAssign(vecSub(Q[n].m_position, centreOfMass(Q)), 3)]

recentre_recomputed(P) == recentreEach(P, Len(P))

\* (mutant) the centre of mass is taken off the velocity as well
recentre_velocityToo(P) ==
    LET CoM == centreOfMass(P)
    IN  [i \in 1..Len(P) |->
            [P[i] EXCEPT !.m_position = copyAssign(vecSub(P[i].m_position, CoM), 3),
                         !.m_velocity = copyAssign(vecSub(P[i].m_velocity, CoM), 3)]]

\* planet.setPosition(planet.getPosition() - CoM), for every planet
recentre(P) ==
    LET CoM == centreOfMass(P)
    IN  [i \in 1..Len(P) |->
            [P[i] EXCEPT !.m_position = copyAssign(vecSub(P[i].m_position, CoM), 3)]]

\* (mutant) the planets are written last to first
RECURSIVE outputRecord_reversed(_, _)
outputRecord_reversed(P, n) ==
    IF n = 0 THEN <<>>
    ELSE <<P[n].m_position[1], P[n].m_position[2], P[n].m_position[3]>>
         \o outputRecord_reversed(P, n - 1)

\* What one pass of the output loop hands to outputFile: X, Y, Z of every
\* planet, in the order of the collection.
RECURSIVE outputRecord(_, _)
outputRecord(P, n) ==
    IF n = 0 THEN <<>>
    ELSE outputRecord(P, n - 1) \o
         <<P[n].m_position[1], P[n].m_position[2], P[n].m_position[3]>>

-----------------------------------------------------------------------------
(* main(): the simulation loop, lines 235-266.  The configuration reader   *)
(* has run; Planets, timeStep and totalLength hold what it produced.       *)

MaxBodies == 3
MaxSteps == 4

Masses == {F(1), F(3)}
Positions == {<<F(-2), 0, 0>>, <<F(2), 0, 0>>, <<F(1), F(2), F(-2)>>}
Velocities == {<<0, 0, 0>>}
TimeSteps == {F(1), F(65) \div 64}
TotalLengths == {F(2), F(49) \div 16}

Bodies == {Planet("p", m, p, v) : m \in Masses, p \in Positions, v \in Velocities}

Collections == UNION {[1..n -> Bodies] : n \in 1..MaxBodies}

Init ==
    /\ Planets \in Collections
    /\ timeStep \in TimeSteps
    /\ totalLength \in TotalLengths
    /\ currentLength = 0
    /\ pc = "while"
    /\ outputFile = <<>>
    /\ hist = [steps |-> 0, advanced |-> 0, pre |-> <<>>, snap |-> <<>>]
    /\ sch = 0
    /\ vec = 0
    /\ calc = 0
    /\ reader = 0

\* (mutant) currentLength <= totalLength
loopCondition_leq(cur, total) == fLeq(cur, total)

\* currentLength < totalLength
loopCondition(cur, total) == fLess(cur, total)

\* while (currentLength < totalLength)
WhileTest ==
    /\ pc = "while"
    /\ IF loopCondition(currentLength, totalLength)
       THEN /\ hist.steps < MaxSteps
            /\ pc' = "recentre"
       ELSE pc' = "done"
    /\ UNCHANGED <<Planets, timeStep, totalLength, currentLength, outputFile, hist, sch, vec, calc, reader>>

\* lines 249-252
Recentre ==
    /\ pc = "recentre"
    /\ \E new \in {recentre(Planets)} :
          /\ Planets' = new
          /\ hist' = [hist EXCEPT !.pre = Planets, !.snap = new, !.advanced = 0]
    /\ pc' = "update"
    /\ UNCHANGED <<timeStep, totalLength, currentLength, outputFile, sch, vec, calc, reader>>

\* lines 255-257, one iteration: planet.updateEulerCromer(Planets, timeStep)
UpdatePlanet ==
    /\ pc = "update"
    /\ LET i == hist.advanced + 1
       IN  /\ \E new \in {updateEulerCromer(Planets[i], i, Planets, timeStep)} :
                 Planets' = [Planets EXCEPT ![i] = new]
           /\ hist' = [hist EXCEPT !.advanced = i]
           /\ pc' = IF i = Len(Planets) THEN "write" ELSE "update"
    /\ UNCHANGED <<timeStep, totalLength, currentLength, outputFile, sch, vec, calc, reader>>

\* lines 260-264
WriteRecord ==
    /\ pc = "write"
    /\ outputFile' = Append(outputFile, outputRecord(Planets, Len(Planets)))
    /\ currentLength' = fAdd(currentLength, timeStep)
    /\ hist' = [hist EXCEPT !.steps = @ + 1]
    /\ pc' = "while"
    /\ UNCHANGED <<Planets, timeStep, totalLength, sch, vec, calc, reader>>

Next == WhileTest \/ Recentre \/ UpdatePlanet \/ WriteRecord

Spec == Init /\ [][Next]_vars

-----------------------------------------------------------------------------
(* Properties of the simulation loop *)

allAdvanced == pc = "write"

\* C1 (as claimed): when every planet of a step has been advanced, the
\* acceleration each planet got in that step is the one computed from the
\* positions all planets had after recentering, before any was advanced.
C1_AccelerationFromSnapshot ==
    allAdvanced =>
        \A j \in 1..Len(Planets) :
            Planets[j].m_acceleration =
                sumAcceleration(hist.snap[j], j, hist.snap, Len(hist.snap))

justRecentred == pc = "update" /\ hist.advanced = 0

finiteVector(c) == \A k \in 1..Len(c) : IsFinite(c[k])

RECURSIVE maxAbsPosition(_, _, _)
maxAbsPosition(P, n, k) ==
    IF n = 0 THEN 0 ELSE Max(maxAbsPosition(P, n - 1, k), Abs(P[n].m_position[k]))

\* C5 (as claimed): right after the recentering pass the centre of mass of
\* a collection of non-zero total mass is the zero vector.
C5_CentreOfMassIsZero ==
    (justRecentred /\ massSum(Planets, Len(Planets)) # 0)
        => centreOfMass(Planets) = <<0, 0, 0>>

\* C5 (amended): right after the recentering pass the centre of mass is zero
\* up to rounding.  For planets of positive mass (total at least 1.0) and
\* finite positions, every finite component of it is at most
\* (4n+4) * 2^-Prec * (largest magnitude of that coordinate before
\* recentering) + (n+2) grid units, n being the number of planets.
C5_CentreOfMassWithinTolerance ==
    (/\ justRecentred
     /\ \A i \in 1..Len(Planets) :
            Planets[i].m_mass >= F(1) /\ finiteVector(hist.pre[i].m_position)
     /\ finiteVector(centreOfMass(Planets)))
        => \A k \in 1..3 :
              Abs(centreOfMass(Planets)[k]) * 2^Prec
                 <= (4 * Len(Planets) + 4) * maxAbsPosition(hist.pre, Len(Planets), k)
                    + (Len(Planets) + 2) * 2^Prec

\* C5 witness: a recentering that moved the planets and left a centre of
\* mass that is finite and not exactly zero.
C5_Witness ==
    /\ justRecentred
    /\ Len(Planets) >= 2
    /\ hist.pre # Planets
    /\ finiteVector(centreOfMass(Planets))
    /\ centreOfMass(Planets) # <<0, 0, 0>>

\* The least whole number n with n * d >= t, for d > 0.
CeilDiv(t, d) == (t + d - 1) \div d

\* currentLength after n additions of timeStep
RECURSIVE elapsedAfter(_)
elapsedAfter(n) == IF n = 0 THEN 0 ELSE fAdd(elapsedAfter(n - 1), timeStep)

C7_OneRecordPerStep ==
    [][(outputFile' # outputFile \/ hist'.steps # hist.steps) =>
         /\ allAdvanced /\ hist.advanced = Len(Planets)
         /\ hist'.steps = hist.steps + 1
         /\ Len(outputFile) = hist.steps
         /\ Len(outputFile') = hist'.steps
         /\ SubSeq(outputFile', 1, Len(outputFile)) = outputFile
         /\ LET rec == outputFile'[Len(outputFile')]
            IN  /\ Len(rec) = 3 * Len(Planets)
                /\ \A i \in 1..Len(Planets), k \in 1..3 :
                      rec[3 * (i - 1) + k] = Planets[i].m_position[k]]_vars

\* C7 witness: two steps done, two records written, of several planets with
\* different positions.
C7_Witness ==
    /\ hist.steps = 2 /\ Len(outputFile) = 2 /\ pc = "while"
    /\ Len(Planets) >= 2
    /\ Planets[1].m_position # Planets[2].m_position
    /\ outputFile[1] # outputFile[2]

nonFinite(c) == \E k \in 1..Len(c) : ~IsFinite(c[k])

\* The planet about to be advanced stands where another planet stands.
coincides(i) ==
    /\ finiteVector(Planets[i].m_position)
    /\ \E j \in 1..Len(Planets) : j # i /\ Planets[j].m_position = Planets[i].m_position

\* C17: when the planet advanced stands at the position of another planet,
\* the step goes on as any other, the planet's acceleration comes out
\* non-finite, and so do its velocity and position in the same step; and a
\* position, velocity or acceleration that is non-finite stays non-finite
\* in every later step.
C17_CoincidentBodiesGoNonFinite ==
    [][/\ (pc = "update" /\ coincides(hist.advanced + 1))
             => LET new == Planets'[hist.advanced + 1]
                IN  /\ nonFinite(new.m_acceleration)
                    /\ nonFinite(new.m_velocity)
                    /\ nonFinite(new.m_position)
                    /\ pc' \in {"update", "write"}
                    /\ hist'.advanced = hist.advanced + 1
       /\ \A j \in 1..Len(Planets) :
             /\ nonFinite(Planets[j].m_position) => nonFinite(Planets'[j].m_position)
             /\ nonFinite(Planets[j].m_velocity) => nonFinite(Planets'[j].m_velocity)
             /\ nonFinite(Planets[j].m_acceleration) => nonFinite(Planets'[j].m_acceleration)]_vars

\* C17 witness: two planets stood at one finite position when the first was
\* advanced; a later step has been completed and written, and the planet is
\* still non-finite.
C17_Witness ==
    /\ hist.steps >= 2 /\ pc = "while" /\ Len(outputFile) = hist.steps
    /\ Len(Planets) >= 2
    /\ nonFinite(Planets[1].m_acceleration)
    /\ nonFinite(Planets[1].m_position)
    /\ \E k \in 1..3 : ~IsFinite(outputFile[1][k])

\* Every field of every planet but its position is as before recentering.
recentreFrame ==
    /\ Len(Planets) = Len(hist.pre)
    /\ \A i \in 1..Len(Planets) :
          /\ Planets[i].m_velocity = hist.pre[i].m_velocity
          /\ Planets[i].m_acceleration = hist.pre[i].m_acceleration
          /\ Planets[i].m_mass = hist.pre[i].m_mass
          /\ Planets[i].m_name = hist.pre[i].m_name

allFinite(P) == \A i \in 1..Len(P) : finiteVector(P[i].m_position)

\* C19 (as claimed): recentering leaves the difference of the positions of
\* every two planets as it was, and every planet's velocity, acceleration,
\* mass and name.
C19_RecentreKeepsDifferences ==
    (justRecentred /\ allFinite(hist.pre) /\ allFinite(Planets))
        => /\ recentreFrame
           /\ \A i \in 1..Len(Planets), j \in 1..Len(Planets) :
                 vecSub(Planets[i].m_position, Planets[j].m_position)
                    = vecSub(hist.pre[i].m_position, hist.pre[j].m_position)

\* p - c computed without rounding, in every coordinate
subExactVector(p, c) == \A k \in 1..3 : addExact(p[k], fNeg(c[k]))

\* C19 (amended): recentering takes one vector, the centre of mass computed
\* before the pass, off every planet's position, each subtraction rounded,
\* and leaves velocity, acceleration, mass and name; the difference of two
\* planets' positions is as before whenever their two subtractions are
\* exact.
C19_RecentreSubtractsOneVector ==
    justRecentred =>
        LET CoM == centreOfMass(hist.pre)
        IN  /\ recentreFrame
            /\ \A i \in 1..Len(Planets) :
                  Planets[i].m_position = vecSub(hist.pre[i].m_position, CoM)
            /\ \A i \in 1..Len(Planets), j \in 1..Len(Planets) :
                  (/\ subExactVector(hist.pre[i].m_position, CoM)
                   /\ subExactVector(hist.pre[j].m_position, CoM))
                     => vecSub(Planets[i].m_position, Planets[j].m_position)
                           = vecSub(hist.pre[i].m_position, hist.pre[j].m_position)

\* C19 witness: a recentering by a vector that is not zero, of planets that
\* had been accelerated, exact for two planets at different positions.
C19_Witness ==
    /\ justRecentred /\ hist.steps >= 1
    /\ centreOfMass(hist.pre) # <<0, 0, 0>>
    /\ finiteVector(centreOfMass(hist.pre))
    /\ Planets[1].m_velocity # <<0, 0, 0>>
    /\ \E i \in 1..Len(Planets), j \in 1..Len(Planets) :
          /\ hist.pre[i].m_position # hist.pre[j].m_position
          /\ subExactVector(hist.pre[i].m_position, centreOfMass(hist.pre))
          /\ subExactVector(hist.pre[j].m_position, centreOfMass(hist.pre))

-----------------------------------------------------------------------------
(* main() started on two planets at rest on the X axis. *)

\* mass and X of the lighter planet, mass and X of the heavier one
TwoBodyCases ==
    { <<F(1), F(10), F(100), 0>>, <<F(1), F(-10), F(100), 0>>,
      <<F(1), F(3), F(3), F(-1)>>, <<F(1), F(-3), F(3), F(1)>>,
      <<F(1), F(4), F(3), 0>>, <<F(2), 0, F(6), F(4)>>,
      <<F(1), F(4), F(4), F(-1)>>, <<F(1), F(8), F(2), 0>> }

atRestOnX(name, mass, x) == Planet(name, mass, <<x, 0, 0>>, <<0, 0, 0>>)

TwoBodyCollections ==
    UNION { { <<atRestOnX("light", c[1], c[2]), atRestOnX("heavy", c[3], c[4])>>,
              <<atRestOnX("heavy", c[3], c[4]), atRestOnX("light", c[1], c[2])>> }
            : c \in TwoBodyCases }

InitTwoBody ==
    /\ Planets \in TwoBodyCollections
    /\ timeStep \in {F(1), F(1) \div 2}
    /\ totalLength \in {F(1), F(2)}
    /\ currentLength = 0
    /\ pc = "while"
    /\ outputFile = <<>>
    /\ hist = [steps |-> 0, advanced |-> 0, pre |-> <<>>, snap |-> <<>>]
    /\ sch = 0
    /\ vec = 0
    /\ calc = 0
    /\ reader = 0

SpecTwoBody == InitTwoBody /\ [][Next]_vars

\* The first step has advanced both planets; they were at rest.
firstStepDone ==
    /\ pc = "write" /\ hist.steps = 0 /\ Len(Planets) = 2
    /\ \A i \in 1..2 : hist.pre[i].m_velocity = <<0, 0, 0>>
    /\ hist.snap[1].m_mass # hist.snap[2].m_mass

lighter == IF hist.snap[1].m_mass < hist.snap[2].m_mass THEN 1 ELSE 2
heavier == 3 - lighter

displacement(i) == vecSub(Planets[i].m_position, hist.snap[i].m_position)

\* C15 (as claimed): after one step of main() with dt = 1 on two planets at
\* rest a distance r apart, the lighter has a velocity of magnitude
\* G * m_heavy / r^2 along the line to the heavier and a position shifted
\* by that velocity times dt, and the displacement of the heavier is that
\* of the lighter times m_light / m_heavy, in the opposite direction.
C15_TwoBodyStep ==
    (firstStepDone /\ timeStep = F(1)) =>
        LET l == hist.snap[lighter]
            h == hist.snap[heavier]
            r == magnitude(vecSub(l.m_position, h.m_position))
            toHeavier == getUnitVector(vecSub(h.m_position, l.m_position), 3)
            v == scaleVector(toHeavier, fDiv(fMul(G, h.m_mass), pow2(r)))
        IN  /\ Planets[lighter].m_velocity = v
            /\ Planets[lighter].m_position
                  = vecAddAssign(l.m_position, scaleVector(v, timeStep))
            /\ displacement(heavier)
                  = scaleVector(displacement(lighter), fNeg(fDiv(l.m_mass, h.m_mass)))

-----------------------------------------------------------------------------
(* A harness for the two schemes: two copies of one initial collection,    *)
(* E advanced by updateEuler and C by updateEulerCromer, planet after      *)
(* planet in the order of the collection, as main() calls them; the        *)
(* harness takes the two copies in turn.                                   *)

MaxPasses == 3

SchPositions == {<<F(-6), 0, 0>>, <<F(6), 0, 0>>, <<F(1), F(2), F(-2)>>}
SchVelocities == {<<0, 0, 0>>, <<0, F(1) \div 2, 0>>}
SchTimeSteps == {F(1), F(1) \div 2}
SchBodies == {Planet("p", m, p, v) : m \in Masses, p \in SchPositions, v \in SchVelocities}

positionsOf(P) == [i \in 1..Len(P) |-> P[i].m_position]

InitSchemes ==
    /\ \E P \in [1..2 -> SchBodies], dt \in SchTimeSteps :
          sch = [E |-> P, C |-> P, start |-> P, dt |-> dt, eCalls |-> 0, cCalls |-> 0,
                 trajE |-> <<>>, trajC |-> <<>>,
                 last |-> [scheme |-> "none", me |-> 0, before |-> <<>>]]
    /\ Planets = <<>> /\ timeStep = 0 /\ totalLength = 0 /\ currentLength = 0
    /\ pc = "harness" /\ outputFile = <<>> /\ hist = 0 /\ vec = 0 /\ calc = 0 /\ reader = 0

\* E[i].updateEuler(E, dt)
CallUpdateEuler ==
    /\ pc = "harness"
    /\ sch.eCalls < MaxPasses * Len(sch.E)
    /\ sch.eCalls = sch.cCalls
    /\ LET i == (sch.eCalls % Len(sch.E)) + 1
       IN  \E new \in {updateEuler(sch.E[i], i, sch.E, sch.dt)} :
              sch' = [sch EXCEPT !.E[i] = new, !.eCalls = @ + 1,
                          !.trajE = IF i = Len(sch.E)
                                    THEN Append(@, positionsOf([sch.E EXCEPT ![i] = new]))
                                    ELSE @,
                          !.last = [scheme |-> "Euler", me |-> i, before |-> sch.E]]
    /\ UNCHANGED <<Planets, timeStep, totalLength, currentLength, pc, outputFile, hist, vec, calc, reader>>

\* C[i].updateEulerCromer(C, dt)
CallUpdateEulerCromer ==
    /\ pc = "harness"
    /\ sch.cCalls < sch.eCalls
    /\ LET i == (sch.cCalls % Len(sch.C)) + 1
       IN  \E new \in {updateEulerCromer(sch.C[i], i, sch.C, sch.dt)} :
              sch' = [sch EXCEPT !.C[i] = new, !.cCalls = @ + 1,
                          !.trajC = IF i = Len(sch.C)
                                    THEN Append(@, positionsOf([sch.C EXCEPT ![i] = new]))
                                    ELSE @,
                          !.last = [scheme |-> "EulerCromer", me |-> i, before |-> sch.C]]
    /\ UNCHANGED <<Planets, timeStep, totalLength, currentLength, pc, outputFile, hist, vec, calc, reader>>

NextSchemes == CallUpdateEuler \/ CallUpdateEulerCromer

SpecSchemes == InitSchemes /\ [][NextSchemes]_vars

\* C2: a call of updateEulerCromer leaves velocity' = velocity +
\* acceleration' * dt and position' = position + velocity' * dt, with
\* acceleration' the acceleration summed in this call and velocity' the
\* velocity already advanced.
C2_EulerCromerOrder ==
    sch.last.scheme = "EulerCromer" =>
        LET i == sch.last.me
            old == sch.last.before[i]
            new == sch.C[i]
        IN  /\ new.m_acceleration = sumAcceleration(old, i, sch.last.before, Len(sch.last.before))
            /\ \A k \in 1..3 :
                  /\ new.m_velocity[k] = fAdd(old.m_velocity[k], fMul(new.m_acceleration[k], sch.dt))
                  /\ new.m_position[k] = fAdd(old.m_position[k], fMul(new.m_velocity[k], sch.dt))

\* C2 witness: a call of updateEulerCromer that changed the velocity, so
\* that the old and the new velocity give different positions.
C2_Witness ==
    /\ sch.last.scheme = "EulerCromer"
    /\ LET i == sch.last.me
           old == sch.last.before[i]
           new == sch.C[i]
       IN  \E k \in 1..3 :
              /\ IsFinite(new.m_position[k])
              /\ new.m_position[k] # fAdd(old.m_position[k], fMul(old.m_velocity[k], sch.dt))

\* C3: a call of updateEuler leaves position' = position + velocity * dt
\* with the velocity from before the call, and velocity' = velocity +
\* acceleration' * dt with the acceleration summed in this call.
C3_EulerOrder ==
    sch.last.scheme = "Euler" =>
        LET i == sch.last.me
            old == sch.last.before[i]
            new == sch.E[i]
        IN  /\ new.m_acceleration = sumAcceleration(old, i, sch.last.before, Len(sch.last.before))
            /\ \A k \in 1..3 :
                  /\ new.m_position[k] = fAdd(old.m_position[k], fMul(old.m_velocity[k], sch.dt))
                  /\ new.m_velocity[k] = fAdd(old.m_velocity[k], fMul(new.m_acceleration[k], sch.dt))

\* C3 witness: a call of updateEuler that changed the velocity, so that the
\* old and the new velocity give different positions.
C3_Witness ==
    /\ sch.last.scheme = "Euler"
    /\ LET i == sch.last.me
           old == sch.last.before[i]
           new == sch.E[i]
       IN  \E k \in 1..3 :
              /\ IsFinite(new.m_position[k])
              /\ new.m_position[k] # fAdd(old.m_position[k], fMul(new.m_velocity[k], sch.dt))

\* Both copies have been through the same number n > 1 of whole passes.
samePasses ==
    /\ sch.eCalls = sch.cCalls
    /\ sch.eCalls % Len(sch.E) = 0
    /\ sch.eCalls \div Len(sch.E) > 1

\* The two planets of the initial collection accelerate each other.
mutualAcceleration ==
    /\ Len(sch.start) = 2
    /\ \A i \in 1..2 :
          LET a == sumAcceleration(sch.start[i], i, sch.start, 2)
          IN  finiteVector(a) /\ a # <<0, 0, 0>>

firstCallShows ==
    LET p0 == sch.start[1]
        a  == sumAcceleration(p0, 1, sch.start, Len(sch.start))
    IN  \E k \in 1..3 :
           fAdd(p0.m_position[k], fMul(fAdd(p0.m_velocity[k], fMul(a[k], sch.dt)), sch.dt))
              # fAdd(p0.m_position[k], fMul(p0.m_velocity[k], sch.dt))

called == sch.last.scheme # "none"
collectionAfter == IF sch.last.scheme = "Euler" THEN sch.E ELSE sch.C
planetBefore == sch.last.before[sch.last.me]
planetAfter == collectionAfter[sch.last.me]

\* The elements of a collection without element number me.
withoutElement(P, me) == SubSeq(P, 1, me - 1) \o SubSeq(P, me + 1, Len(P))

\* calcAcceleration(b) added up over the elements b of a sequence, in order
RECURSIVE accelerationOver(_, _)
accelerationOver(self, seq) ==
    IF seq = <<>> THEN <<0, 0, 0>>
    ELSE vecAddAssign(accelerationOver(self, SubSeq(seq, 1, Len(seq) - 1)),
                      calcAcceleration(self, seq[Len(seq)]))

sameValues(p, q) ==
    /\ p.m_name = q.m_name /\ p.m_mass = q.m_mass
    /\ p.m_position = q.m_position /\ p.m_velocity = q.m_velocity

\* C14: the acceleration a planet gets from updateAccelerationEuler is the
\* sum of calcAcceleration(b) over every element b of the collection other
\* than the planet itself; an element with the planet's name, mass,
\* position and velocity is in that sum, and the acceleration the planet had
\* before is not.
C14_AccelerationSumsOthersByIdentity ==
    called =>
        planetAfter.m_acceleration
            = accelerationOver(planetBefore, withoutElement(sch.last.before, sch.last.me))

\* C14 witness: a planet that had an acceleration already has been updated
\* in a collection whose other element has its very values.
C14_Witness ==
    /\ called
    /\ planetBefore.m_acceleration # <<0, 0, 0>>
    /\ \E j \in 1..Len(sch.last.before) :
          j # sch.last.me /\ sameValues(sch.last.before[j], planetBefore)
    /\ planetAfter.m_acceleration # <<0, 0, 0>>

\* C18: a call of updateEuler or updateEulerCromer on one planet leaves its
\* mass and name, and every field of every other planet of the collection
\* passed in, as they were.
C18_UpdateChangesOnlyMotion ==
    called =>
        /\ planetAfter.m_mass = planetBefore.m_mass
        /\ planetAfter.m_name = planetBefore.m_name
        /\ Len(collectionAfter) = Len(sch.last.before)
        /\ \A j \in 1..Len(sch.last.before) :
              j # sch.last.me => collectionAfter[j] = sch.last.before[j]

\* C18 witness: a call that changed the planet's acceleration, velocity and
\* position, beside a planet of another mass.
C18_Witness ==
    /\ called
    /\ planetAfter.m_acceleration # planetBefore.m_acceleration
    /\ planetAfter.m_velocity # planetBefore.m_velocity
    /\ planetAfter.m_position # planetBefore.m_position
    /\ \E j \in 1..Len(sch.last.before) : sch.last.before[j].m_mass # planetBefore.m_mass

-----------------------------------------------------------------------------
(* A harness for PhysicsVector<dim>: a few objects of one dimension, and   *)
(* the public operations of the class applied to them in any order.        *)
(* vec.obj[s].m_components is the member of object s while it is alive.    *)
(* An operation with undefined behaviour ends the run (vec.undefined).     *)

MaxDim == 3
NumObjects == 2
MaxOps == 3

MaxListLen == MaxDim + 2
Slots == 1..NumObjects
BaseLists == {<<F(1), F(2), F(3), F(4), F(5), F(6), F(7)>>, <<F(5), 0, 0, 0, F(1), 0, 0>>}
Lists == {SubSeq(b, 1, n) : b \in BaseLists, n \in 0..MaxListLen}
Indices == (-2)..(MaxDim + 1)
SetValues == {F(9)}
Factors == {F(-2)}
Dead == [alive |-> FALSE, m_components |-> <<>>]
Object(c) == [alive |-> TRUE, m_components |-> c]

alive(s) == vec.obj[s].alive
components(s) == vec.obj[s].m_components
shortOf(s) == Len(components(s)) < vec.dim

noCall == [op |-> "none", slot |-> 0, index |-> 0, value |-> 0, list |-> <<>>,
           outcome |-> "returned"]

InitVector ==
    /\ \E d \in 1..MaxDim :
          vec = [dim |-> d, obj |-> [s \in Slots |-> Dead], ops |-> 0,
                 undefined |-> FALSE, before |-> [s \in Slots |-> Dead], last |-> noCall]
    /\ Planets = <<>> /\ timeStep = 0 /\ totalLength = 0 /\ currentLength = 0
    /\ pc = "harness" /\ outputFile = <<>> /\ hist = 0 /\ sch = 0 /\ calc = 0 /\ reader = 0

canCall == pc = "harness" /\ ~vec.undefined /\ vec.ops < MaxOps

\* The state after a call: the objects, and what the call was.
after(obj, call) ==
    vec' = [vec EXCEPT !.obj = obj, !.ops = @ + 1, !.before = vec.obj, !.last = call,
                       !.undefined = (call.outcome = "undefined")]

others == <<Planets, timeStep, totalLength, currentLength, pc, outputFile, hist, sch, calc, reader>>

\* PhysicsVector<dim> v;
DefaultConstruct ==
    /\ canCall
    /\ \E s \in Slots :
          /\ ~alive(s)
          /\ after([vec.obj EXCEPT ![s] = Object(defaultCtor(vec.dim))],
                   [noCall EXCEPT !.op = "default", !.slot = s])
    /\ UNCHANGED others

\* PhysicsVector<dim> v{ ... };
ListConstruct ==
    /\ canCall
    /\ \E s \in Slots, l \in Lists :
          /\ ~alive(s)
          /\ after([vec.obj EXCEPT ![s] = Object(initListCtor(l, vec.dim))],
                   [noCall EXCEPT !.op = "initList", !.slot = s, !.list = l])
    /\ UNCHANGED others

\* PhysicsVector<dim> v{ t };
CopyConstruct ==
    /\ canCall
    /\ \E s \in Slots, t \in Slots :
          /\ ~alive(s) /\ alive(t)
          /\ after([vec.obj EXCEPT ![s] = Object(copyCtor(components(t)))],
                   [noCall EXCEPT !.op = "copy", !.slot = s, !.index = t])
    /\ UNCHANGED others

\* PhysicsVector<dim> v{ std::move(t) };
MoveConstruct ==
    /\ canCall
    /\ \E s \in Slots, t \in Slots :
          /\ ~alive(s) /\ alive(t)
          /\ \E rest \in movedFrom(components(t)) :
                after([vec.obj EXCEPT ![s] = Object(components(t)), ![t] = Object(rest)],
                      [noCall EXCEPT !.op = "move", !.slot = s, !.index = t])
    /\ UNCHANGED others

\* v = t;
CopyAssign ==
    /\ canCall
    /\ \E s \in Slots, t \in Slots :
          /\ alive(s) /\ alive(t)
          /\ IF s = t
             THEN after(vec.obj, [noCall EXCEPT !.op = "copyAssign", !.slot = s, !.index = t])
             ELSE IF shortOf(t)
             THEN after(vec.obj, [noCall EXCEPT !.op = "copyAssign", !.slot = s, !.index = t,
                                                !.outcome = "undefined"])
             ELSE after([vec.obj EXCEPT ![s] = Object(copyAssign(components(t), vec.dim))],
                        [noCall EXCEPT !.op = "copyAssign", !.slot = s, !.index = t])
    /\ UNCHANGED others

\* v = std::move(t);
MoveAssign ==
    /\ canCall
    /\ \E s \in Slots, t \in Slots :
          /\ alive(s) /\ alive(t)
          /\ IF s = t
             THEN after(vec.obj, [noCall EXCEPT !.op = "moveAssign", !.slot = s, !.index = t])
             ELSE \E rest \in movedFrom(components(t)) :
                     after([vec.obj EXCEPT ![s] = Object(moveAssign(components(t), vec.dim)), ![t] = Object(rest)],
                           [noCall EXCEPT !.op = "moveAssign", !.slot = s, !.index = t])
    /\ UNCHANGED others

\* The call v.getAt(i), under the name it was made by.
getAtCall(s, i, name) ==
    after(vec.obj,
          [noCall EXCEPT !.op = name, !.slot = s, !.index = i,
                         !.outcome = IF getAtThrows(components(s), i) THEN "out_of_range"
                                     ELSE "returned",
                         !.value = IF getAtThrows(components(s), i) THEN 0
                                   ELSE components(s)[toSizeT(i) + 1]])

\* The call v.setAt(i, x), under the name it was made by.
setAtCall(s, i, x, name) ==
    IF setAtThrows(i, vec.dim)
    THEN after(vec.obj, [noCall EXCEPT !.op = name, !.slot = s, !.index = i, !.value = x,
                                       !.outcome = "out_of_range"])
    ELSE IF subscriptUndefined(components(s), i)
    THEN after(vec.obj, [noCall EXCEPT !.op = name, !.slot = s, !.index = i, !.value = x,
                                       !.outcome = "undefined"])
    ELSE after([vec.obj EXCEPT ![s].m_components[toSizeT(i) + 1] = x],
               [noCall EXCEPT !.op = name, !.slot = s, !.index = i, !.value = x])

\* v.getAt(i)
GetAt ==
    /\ canCall
    /\ \E s \in Slots, i \in Indices : alive(s) /\ getAtCall(s, i, "getAt")
    /\ UNCHANGED others

\* v.getX(), v.getY(), v.getZ()
GetNamed ==
    /\ canCall
    /\ \E s \in Slots, i \in 0..2 : alive(s) /\ getAtCall(s, i, "getXYZ")
    /\ UNCHANGED others

\* v.setAt(i, x)
SetAt ==
    /\ canCall
    /\ \E s \in Slots, i \in Indices, x \in SetValues : alive(s) /\ setAtCall(s, i, x, "setAt")
    /\ UNCHANGED others

\* v.setX(x), v.setY(x), v.setZ(x)
SetNamed ==
    /\ canCall
    /\ \E s \in Slots, i \in 0..2, x \in SetValues : alive(s) /\ setAtCall(s, i, x, "setXYZ")
    /\ UNCHANGED others

\* v.scaleVector(k)
ScaleVector ==
    /\ canCall
    /\ \E s \in Slots, k \in Factors :
          /\ alive(s)
          /\ after([vec.obj EXCEPT ![s] = Object(scaleVector(components(s), k))],
                   [noCall EXCEPT !.op = "scaleVector", !.slot = s, !.value = k])
    /\ UNCHANGED others

\* v += t;
AddAssign ==
    /\ canCall
    /\ \E s \in Slots, t \in Slots :
          /\ alive(s) /\ alive(t)
          /\ IF shortOf(s) \/ shortOf(t)
             THEN after(vec.obj, [noCall EXCEPT !.op = "addAssign", !.slot = s, !.index = t,
                                                !.outcome = "undefined"])
             ELSE after([vec.obj EXCEPT ![s] = Object(vecAddAssign(components(s), components(t)))],
                        [noCall EXCEPT !.op = "addAssign", !.slot = s, !.index = t])
    /\ UNCHANGED others

\* PhysicsVector<dim> v{ a - b };
Subtract ==
    /\ canCall
    /\ \E s \in Slots, a \in Slots, b \in Slots :
          /\ ~alive(s) /\ alive(a) /\ alive(b)
          /\ IF shortOf(a) \/ shortOf(b)
             THEN after(vec.obj, [noCall EXCEPT !.op = "subtract", !.slot = s, !.index = a,
                                                !.outcome = "undefined"])
             ELSE after([vec.obj EXCEPT ![s] = Object(vecSub(components(a), components(b)))],
                        [noCall EXCEPT !.op = "subtract", !.slot = s, !.index = a])
    /\ UNCHANGED others

\* ~PhysicsVector()
Destroy ==
    /\ canCall
    /\ \E s \in Slots :
          /\ alive(s)
          /\ after([vec.obj EXCEPT ![s] = Dead], [noCall EXCEPT !.op = "destroy", !.slot = s])
    /\ UNCHANGED others

NextVector ==
    \/ DefaultConstruct \/ ListConstruct \/ CopyConstruct \/ MoveConstruct
    \/ CopyAssign \/ MoveAssign \/ GetAt \/ GetNamed \/ SetAt \/ SetNamed
    \/ ScaleVector \/ AddAssign \/ Subtract \/ Destroy

SpecVector == InitVector /\ [][NextVector]_vars

-----------------------------------------------------------------------------
(* Claims about PhysicsVector, under SpecVector *)

\* C8 (as stated): every PhysicsVector<dim> that can be observed holds
\* exactly dim components, whatever constructions, assignments, setAt,
\* scalings and arithmetic came before, the source of a move included.
C8_ExactlyDimComponents ==
    \A s \in Slots : alive(s) => Len(components(s)) = vec.dim

\* C9: a PhysicsVector<dim> constructed from a list of n values has, for
\* every i < dim, component i equal to list element i where i < n and to 0
\* where i >= n: values beyond dim are dropped, missing ones are zeros at
\* the end.
C9_InitListTruncatesOrPads ==
    vec.last.op = "initList" =>
        LET c == components(vec.last.slot)
            l == vec.last.list
        IN  /\ Len(c) = vec.dim
            /\ \A i \in 0..(vec.dim - 1) :
                  c[i + 1] = IF i < Len(l) THEN l[i + 1] ELSE 0

\* a 3-dimensional vector has just been built from five values
C9_Witness ==
    /\ vec.last.op = "initList"
    /\ vec.dim = 3
    /\ Len(vec.last.list) = 5
    /\ components(vec.last.slot) = SubSeq(vec.last.list, 1, 3)

isGet == vec.last.op \in {"getAt", "getXYZ"}
isSet == vec.last.op \in {"setAt", "setXYZ"}

\* C10: getAt(i) and setAt(i, v), and getX/getY/getZ and setX/setY/setZ as
\* indices 0, 1, 2, fail with an out-of-range error for every i outside
\* [0, dim), negative i included; a setAt that failed has changed no
\* component of any vector, and a setAt that succeeded has changed
\* component i of its vector to v and nothing else.
C10_OutOfRangeAndSetAtFrame ==
    /\ (isGet \/ isSet) /\ vec.last.index \notin 0..(vec.dim - 1)
          => vec.last.outcome = "out_of_range"
    /\ vec.last.op = "getXYZ" \/ vec.last.op = "setXYZ" => vec.last.index \in 0..2
    /\ isGet => vec.obj = vec.before
    /\ isSet /\ vec.last.outcome = "out_of_range" => vec.obj = vec.before
    /\ isSet /\ vec.last.outcome = "returned"
          => /\ vec.last.index \in 0..(vec.dim - 1)
             /\ vec.obj = [vec.before EXCEPT
                              ![vec.last.slot].m_components[vec.last.index + 1] = vec.last.value]

\* setAt has just been refused a negative index on a vector whose
\* components are not all equal to the value offered
C10_Witness ==
    /\ vec.last.op = "setAt"
    /\ vec.last.index < 0
    /\ vec.last.outcome = "out_of_range"
    /\ \E k \in 1..vec.dim : components(vec.last.slot)[k] # vec.last.value

-----------------------------------------------------------------------------
(* A harness for the vector calculus functions: two vectors A and B of one *)
(* dimension, and one call of a const member function of A.                *)

MaxShift == 2

CalcDims == {1, 2, 3, 4, 7, 8}

\* Components to build the operands from: small whole numbers, fractions
\* whose products round, magnitudes whose products overflow, values below
\* epsilon, and zeros.
Patterns ==
    { <<F(1), 0, F(-1), F(1), 0, F(1), F(-1)>>,
      <<F(2), F(-1), 0, F(1), F(1), 0, F(-2)>>,
      <<F(3), F(4), 0, 0, F(-4), F(3), 0>>,
      <<F(13) \div 8, F(3) \div 8, F(-5) \div 4, F(7) \div 16, F(1), F(-11) \div 8, F(9) \div 16>>,
      <<F(16), F(24), F(16), F(-16), F(32), F(16), F(24)>>,
      <<1, 0, 2, 0, 0, 1, 0>>,
      <<0, 0, 0, 0, 0, 0, 0>> }

rotated(p, shift, dim) == [i \in 1..dim |-> p[((i - 1 + shift) % Len(p)) + 1]]

\* The vectors of a dimension: the patterns, and a vector that was moved from.
Operands(dim) ==
    {rotated(p, sh, dim) : p \in Patterns, sh \in 0..MaxShift} \cup UNION {movedFrom(<<>>)}

noResult == [op |-> "none", outcome |-> "returned", vector |-> <<>>, value |-> 0]

InitCalculus ==
    /\ \E d \in CalcDims : \E a \in Operands(d), b \in Operands(d) :
          calc = [dim |-> d, A |-> a, B |-> b, A0 |-> a, B0 |-> b, last |-> noResult]
    /\ Planets = <<>> /\ timeStep = 0 /\ totalLength = 0 /\ currentLength = 0
    /\ pc = "harness" /\ outputFile = <<>> /\ hist = 0 /\ sch = 0 /\ vec = 0 /\ reader = 0

canCalculate == pc = "harness" /\ calc.last.op = "none"

\* m_components[i] of an operand is read where it has no such component
readsPastEnd == Len(calc.A) < calc.dim \/ Len(calc.B) < calc.dim

notCalc == <<Planets, timeStep, totalLength, currentLength, pc, outputFile, hist, sch, vec, reader>>

\* A.vectorProduct(B)
CallVectorProduct ==
    /\ canCalculate
    /\ calc' = [calc EXCEPT !.last =
          IF vectorProductThrows(calc.dim)
          THEN [noResult EXCEPT !.op = "vectorProduct", !.outcome = "logic_error"]
          ELSE IF readsPastEnd \/ (calc.dim # 3 /\ calc.dim < 7)
          THEN [noResult EXCEPT !.op = "vectorProduct", !.outcome = "undefined"]
          ELSE [noResult EXCEPT !.op = "vectorProduct",
                                !.vector = vectorProduct(calc.A, calc.B, calc.dim)]]
    /\ UNCHANGED notCalc

\* A.innerProduct(B)
CallInnerProduct ==
    /\ canCalculate
    /\ calc' = [calc EXCEPT !.last =
          IF Len(calc.B) < Len(calc.A)
          THEN [noResult EXCEPT !.op = "innerProduct", !.outcome = "undefined"]
          ELSE [noResult EXCEPT !.op = "innerProduct",
                                !.value = innerProduct(calc.A, calc.B)]]
    /\ UNCHANGED notCalc

\* A.getUnitVector()
CallGetUnitVector ==
    /\ canCalculate
    /\ calc' = [calc EXCEPT !.last =
          [noResult EXCEPT !.op = "getUnitVector",
                           !.vector = getUnitVector(calc.A, calc.dim)]]
    /\ UNCHANGED notCalc

\* -A
CallUnaryMinus ==
    /\ canCalculate
    /\ calc' = [calc EXCEPT !.last =
          [noResult EXCEPT !.op = "unaryMinus", !.vector = unaryMinus(copyCtor(calc.A))]]
    /\ UNCHANGED notCalc

NextCalculus ==
    \/ CallVectorProduct \/ CallInnerProduct \/ CallGetUnitVector \/ CallUnaryMinus

SpecCalculus == InitCalculus /\ [][NextCalculus]_vars

-----------------------------------------------------------------------------
(* Claims about the vector calculus functions, under SpecCalculus *)

returnedBy(op) == calc.last.op = op /\ calc.last.outcome = "returned"

hasNaN(c) == \E k \in 1..Len(c) : IsNaN(c[k])

\* C11: vectorProduct returns a vector only for dim 3 and dim 7; for any
\* other dimension it throws std::logic_error, returns nothing, and leaves
\* both operands as they were.
C11_VectorProductOnlyIn3And7 ==
    calc.last.op = "vectorProduct" =>
        /\ calc.dim \notin {3, 7}
              => calc.last.outcome = "logic_error" /\ calc.last.vector = <<>>
        /\ calc.last.outcome = "returned"
              => calc.dim \in {3, 7} /\ Len(calc.last.vector) = calc.dim
        /\ calc.A = calc.A0 /\ calc.B = calc.B0

\* the product of two whole 4-dimensional vectors has been refused
C11_Witness ==
    /\ calc.last.op = "vectorProduct" /\ calc.last.outcome = "logic_error"
    /\ calc.dim = 4 /\ Len(calc.A) = 4 /\ Len(calc.B) = 4
    /\ calc.A # calc.B

wholeOperands == Len(calc.A) = calc.dim /\ Len(calc.B) = calc.dim

\* C12 (as claimed): for all 3-dimensional A and B,
\* A.vectorProduct(B) == -(B.vectorProduct(A)).
C12_Antisymmetric ==
    (returnedBy("vectorProduct") /\ calc.dim = 3 /\ wholeOperands)
        => vecEq(calc.last.vector, unaryMinus(vectorProduct(calc.B, calc.A, 3)), 3)

\* C12 (amended): A.vectorProduct(B) == -(B.vectorProduct(A)) for all
\* 3-dimensional A and B whose product has no NaN component.
C12_AntisymmetricUnlessNaN ==
    (returnedBy("vectorProduct") /\ calc.dim = 3 /\ wholeOperands
        /\ ~hasNaN(calc.last.vector))
        => vecEq(calc.last.vector, unaryMinus(vectorProduct(calc.B, calc.A, 3)), 3)

\* a product of two 3-dimensional vectors with a component that is neither
\* NaN nor zero, and one that is zero
C12_Witness ==
    /\ returnedBy("vectorProduct") /\ calc.dim = 3 /\ wholeOperands
    /\ ~hasNaN(calc.last.vector)
    /\ \E k \in 1..3 : calc.last.vector[k] # 0
    /\ \E k \in 1..3 : calc.last.vector[k] = 0

crossTermExact(a, b, i, j) ==
    /\ mulExact(a[i + 1], b[j + 1]) /\ mulExact(a[j + 1], b[i + 1])
    /\ addExact(fMul(a[i + 1], b[j + 1]), fNeg(fMul(a[j + 1], b[i + 1])))

sevenExact(a, b, t) ==
    LET t1 == crossTerm(a, b, t[1][1], t[1][2])
        t2 == crossTerm(a, b, t[2][1], t[2][2])
        t3 == crossTerm(a, b, t[3][1], t[3][2])
    IN  /\ \A n \in 1..3 : crossTermExact(a, b, t[n][1], t[n][2])
        /\ addExact(t1, t2) /\ addExact(fAdd(t1, t2), t3)

vectorProductExact(a, b) == \A k \in 1..7 : sevenExact(a, b, SevenTerms[k])

RECURSIVE innerExact(_, _, _)
innerExact(a, b, n) ==
    \/ n = 0
    \/ /\ innerExact(a, b, n - 1)
       /\ mulExact(a[n], b[n])
       /\ addExact(innerSum(a, b, n - 1), fMul(a[n], b[n]))

\* C13 (as claimed): for all 7-dimensional A and B, A.vectorProduct(A) is
\* the zero vector, and the inner products of A and of B with
\* A.vectorProduct(B) are 0.
C13_AlternatingOrthogonal ==
    (returnedBy("vectorProduct") /\ calc.dim = 7 /\ wholeOperands)
        => /\ calc.A = calc.B => calc.last.vector = defaultCtor(7)
           /\ innerProduct(calc.A, calc.last.vector) = 0
           /\ innerProduct(calc.B, calc.last.vector) = 0

\* C13 (amended): every component of A.vectorProduct(A) is 0, or NaN where
\* products of components overflow; the inner products of A and of B with
\* A.vectorProduct(B) are 0 whenever every multiplication and addition of
\* the product and of the inner product is exact.
C13_AlternatingOrthogonalWhenExact ==
    (returnedBy("vectorProduct") /\ calc.dim = 7 /\ wholeOperands)
        => /\ calc.A = calc.B
                => \A k \in 1..7 : calc.last.vector[k] = 0 \/ IsNaN(calc.last.vector[k])
           /\ vectorProductExact(calc.A, calc.B) /\ innerExact(calc.A, calc.last.vector, 7)
                => innerProduct(calc.A, calc.last.vector) = 0
           /\ vectorProductExact(calc.A, calc.B) /\ innerExact(calc.B, calc.last.vector, 7)
                => innerProduct(calc.B, calc.last.vector) = 0

\* a product of two different 7-dimensional vectors, computed exactly, not
\* zero, and exactly orthogonal to both
C13_Witness ==
    /\ returnedBy("vectorProduct") /\ calc.dim = 7 /\ wholeOperands
    /\ calc.A # calc.B
    /\ calc.last.vector # defaultCtor(7)
    /\ vectorProductExact(calc.A, calc.B)
    /\ innerExact(calc.A, calc.last.vector, 7)
    /\ innerExact(calc.B, calc.last.vector, 7)

\* C16 (as claimed): getUnitVector returns the zero vector of the dimension
\* when the magnitude is <= epsilon, and the vector divided by its magnitude
\* otherwise; the vector it is called on is not changed.
C16_UnitVectorDivides ==
    calc.last.op = "getUnitVector" =>
        /\ calc.A = calc.A0
        /\ calc.last.outcome = "returned"
        /\ IF leqEpsilon(magnitude(calc.A))
           THEN calc.last.vector = defaultCtor(calc.dim)
           ELSE calc.last.vector
                   = [i \in 1..Len(calc.A) |-> fDiv(calc.A[i], magnitude(calc.A))]

\* C16 (amended): getUnitVector returns the zero vector of the dimension
\* when the magnitude is <= epsilon, and otherwise the vector with every
\* component multiplied by the rounded reciprocal 1 / magnitude; the vector
\* it is called on is not changed.
C16_UnitVectorScalesByReciprocal ==
    calc.last.op = "getUnitVector" =>
        /\ calc.A = calc.A0
        /\ calc.last.outcome = "returned"
        /\ IF leqEpsilon(magnitude(calc.A))
           THEN calc.last.vector = defaultCtor(calc.dim)
           ELSE calc.last.vector
                   = [i \in 1..Len(calc.A) |->
                         fMul(calc.A[i], fDiv(F(1), magnitude(calc.A)))]

\* the unit vector of a vector that is not zero but no longer than epsilon
C16_Witness ==
    /\ returnedBy("getUnitVector") /\ Len(calc.A) = calc.dim
    /\ calc.A # defaultCtor(calc.dim)
    /\ leqEpsilon(magnitude(calc.A))
    /\ calc.last.vector = defaultCtor(calc.dim)

-----------------------------------------------------------------------------
(* main(): reading config.txt, lines 128-199.  A line is given by the key  *)
(* before its '=' and by the value readChars or readVector returns for the *)
(* text after it; a text they reject throws and is not a valid line.       *)

MaxLines == 10

FourKeys == {"name", "mass", "position", "velocity"}

\* The bit initialisedComponents.set(bit, true) is called with for each key.
bitOf(key) ==
    CASE key = "name" -> 0
      [] key = "mass" -> 1
      [] key = "position" -> 2
      [] key = "velocity" -> 3

ConfigNames == {"a", "b"}
ConfigMasses == {F(1), F(3)}
ConfigPositions == {<<F(-2), F(2), 0>>}
ConfigVelocities == {<<0, F(1), 0>>}

\* lineAfterEquals as it is used: as text, through readChars, or through
\* readVector.
Line(key, text, number, vector) ==
    [key |-> key, text |-> text, number |-> number, vector |-> vector]

ValidLines ==
    {Line("timeStep", "", F(1) \div 2, <<>>)}
    \cup {Line("simulationLength", "", F(2), <<>>)}
    \cup {Line("name", v, 0, <<>>) : v \in ConfigNames}
    \cup {Line("mass", "", v, <<>>) : v \in ConfigMasses}
    \cup {Line("position", "", 0, v) : v \in ConfigPositions}
    \cup {Line("velocity", "", 0, v) : v \in ConfigVelocities}
    \cup {Line("#", "", 0, <<>>)}

\* A line whose key is none of the six: the final else of the chain throws.
UnknownLines == {Line("colour", "red", 0, <<>>)}

noLine == Line("", "", 0, <<>>)

\* What the lines read so far said, kept beside the reader's own variables:
\* how often each key occurred, the keys that occurred since the last body
\* was appended, and the value of the latest line of each key.
noLatest ==
    [name |-> "", mass |-> NaN, position |-> <<NaN, NaN, NaN>>, velocity |-> <<NaN, NaN, NaN>>]

InitConfig ==
    /\ Planets = <<>>
    /\ timeStep = F(1)
    /\ totalLength = F(10)
    /\ currentLength = 0
    /\ pc = "getline"
    /\ outputFile = <<>>
    /\ hist = 0 /\ sch = 0 /\ vec = 0 /\ calc = 0
    /\ \E indeterminate \in ConfigMasses \cup {0} :
        reader = [initialisedComponents |-> [bit \in 0..3 |-> FALSE],
                  newName |-> "", newMass |-> indeterminate,
                  newPos |-> defaultCtor(3), newVel |-> defaultCtor(3),
                  lines |-> 0, line |-> noLine, appended |-> FALSE,
                  flagsBefore |-> [bit \in 0..3 |-> FALSE],
                  seen |-> [key \in FourKeys |-> 0], since |-> {}, sinceBefore |-> {},
                  latest |-> noLatest]

\* (mutant) a planet is complete without its velocity
all_butVelocity(bits) == \A bit \in 0..2 : bits[bit]

\* std::bitset<4>::all()
all(bits) == \A bit \in 0..3 : bits[bit]

\* The if/else-if chain of lines 166-189 on the reader's local variables.
dispatch(r, line) ==
    CASE line.key = "name" ->
            [r EXCEPT !.newName = line.text, !.initialisedComponents[0] = TRUE]
      [] line.key = "mass" ->
            [r EXCEPT !.newMass = line.number, !.initialisedComponents[1] = TRUE]
      [] line.key = "position" ->
            [r EXCEPT !.newPos = initListCtor(line.vector, 3), !.initialisedComponents[2] = TRUE]
      [] line.key = "velocity" ->
            [r EXCEPT !.newVel = initListCtor(line.vector, 3), !.initialisedComponents[3] = TRUE]
      [] OTHER -> r

\* lines 193-198: the planet is pushed back and the bitset reset
pushWhenComplete(P, r) ==
    IF all(r.initialisedComponents)
    THEN Append(P, Planet(r.newName, r.newMass, r.newPos, r.newVel))
    ELSE P

resetWhenComplete(r) ==
    IF all(r.initialisedComponents)
    THEN [r EXCEPT !.initialisedComponents = [bit \in 0..3 |-> FALSE]]
    ELSE r

\* What is noted of a line beside the reader: taken from the line and from
\* whether Planets grew, never from the reader's bitset.
noted(r, line, grew) ==
    LET isPart == line.key \in FourKeys
        since == IF isPart THEN r.since \cup {line.key} ELSE r.since
    IN  [r EXCEPT
            !.lines = @ + 1, !.line = line, !.appended = grew,
            !.seen = IF isPart THEN [@ EXCEPT ![line.key] = @ + 1] ELSE @,
            !.sinceBefore = r.since,
            !.since = IF grew THEN {} ELSE since,
            !.latest = CASE line.key = "name" -> [@ EXCEPT !.name = line.text]
                         [] line.key = "mass" -> [@ EXCEPT !.mass = line.number]
                         [] line.key = "position" -> [@ EXCEPT !.position = line.vector]
                         [] line.key = "velocity" -> [@ EXCEPT !.velocity = line.vector]
                         [] OTHER -> @]

\* One pass of while (getline(configFile, inputLine)) on a comment or an
\* empty line: continue, line 153.
ReadComment ==
    /\ pc = "getline"
    /\ reader.lines < MaxLines
    /\ \E line \in {l \in ValidLines : l.key = "#"} :
        reader' = noted([reader EXCEPT !.flagsBefore = reader.initialisedComponents], line, FALSE)
    /\ UNCHANGED <<Planets, timeStep, totalLength, currentLength, pc, outputFile, hist, sch, vec, calc>>

\* One pass on a line of one of the six keys, lines 152-198.
ReadLine ==
    /\ pc = "getline"
    /\ reader.lines < MaxLines
    /\ \E line \in {l \in ValidLines : l.key # "#"} :
        LET r == dispatch(reader, line)
            P == pushWhenComplete(Planets, r)
        IN  /\ timeStep' = IF line.key = "timeStep" THEN line.number ELSE timeStep
            /\ totalLength' = IF line.key = "simulationLength" THEN line.number ELSE totalLength
            /\ Planets' = P
            /\ reader' = noted([resetWhenComplete(r) EXCEPT
                                    !.flagsBefore = reader.initialisedComponents],
                               line, Len(P) > Len(Planets))
    /\ UNCHANGED <<currentLength, pc, outputFile, hist, sch, vec, calc>>

\* One pass on a line of an unknown key: std::invalid_argument leaves main.
ReadUnknown ==
    /\ pc = "getline"
    /\ reader.lines < MaxLines
    /\ \E line \in UnknownLines :
        reader' = noted([reader EXCEPT !.flagsBefore = reader.initialisedComponents], line, FALSE)
    /\ pc' = "invalid_argument"
    /\ UNCHANGED <<Planets, timeStep, totalLength, currentLength, outputFile, hist, sch, vec, calc>>

\* getline fails at the end of the file and the loop is left, line 151.
EndOfFile ==
    /\ pc = "getline"
    /\ pc' = "read"
    /\ reader' = [reader EXCEPT !.flagsBefore = reader.initialisedComponents,
                                !.sinceBefore = reader.since,
                                !.line = noLine, !.appended = FALSE]
    /\ UNCHANGED <<Planets, timeStep, totalLength, currentLength, outputFile, hist, sch, vec, calc>>

NextConfig == ReadComment \/ ReadLine \/ ReadUnknown \/ EndOfFile

SpecConfig == InitConfig /\ [][NextConfig]_vars

(* C20: while the configuration is read, a body is appended exactly when   *)
(* name, mass, position and velocity have all occurred since the previous  *)
(* body was appended, and the four flags are clear after every append; the *)
(* number of bodies never exceeds the number of times each of the four     *)
(* keys occurred; the body appended is made of the latest value of each    *)
(* key, so a repeated key before completion overwrites the pending value   *)
(* and appends nothing; and at the end of the file an incomplete group has *)
(* appended nothing.                                                       *)
C20_AppendWhenAllFourSet ==
    LET completes == reader.sinceBefore \cup ({reader.line.key} \cap FourKeys) = FourKeys
        repeated == reader.line.key \in reader.sinceBefore
    IN  /\ reader.appended <=> (reader.line.key \in FourKeys /\ completes)
        /\ reader.appended =>
            /\ \A bit \in 0..3 : ~reader.initialisedComponents[bit]
            /\ Planets[Len(Planets)] = Planet(reader.latest.name, reader.latest.mass,
                                              initListCtor(reader.latest.position, 3),
                                              initListCtor(reader.latest.velocity, 3))
        /\ \A key \in FourKeys :
            /\ Len(Planets) <= reader.seen[key]
            /\ reader.initialisedComponents[bitOf(key)] <=> key \in reader.since
        /\ (repeated /\ ~completes) =>
            /\ ~reader.appended
            /\ reader.initialisedComponents = reader.flagsBefore
            /\ dispatch(reader, reader.line) = reader
        /\ (pc = "read" /\ reader.since # {}) =>
            /\ ~reader.appended
            /\ \E key \in FourKeys : Len(Planets) < reader.seen[key]

\* Two bodies were appended, the second after a key of its group was
\* repeated with another value, and the file ended in an incomplete group.
C20_Witness ==
    /\ pc = "read"
    /\ Len(Planets) = 2
    /\ Planets[1].m_name # Planets[2].m_name
    /\ reader.since # {}
    /\ \E key \in FourKeys : reader.seen[key] > 3

====
